---- MODULE Spec2Model ----
(***************************************************************************)
(* Model of the cost-optimised LLM routing gateway:                        *)
(*   src/src/router.py        CircuitBreaker, LLMRouter                    *)
(*   src/src/cost_tracker.py  CostTracker                                  *)
(*   src/app.py               the two HTTP handlers (/generate, /stats)    *)
(*                                                                         *)
(* Units.  Time is in whole seconds.  Money is in micro-dollars; a         *)
(* provider's cost_per_1k_tokens is kept in units of 0.0001 $ per 1k       *)
(* tokens (0.001 $ = 10), so that _calculate_cost's round(.., 6) is a real *)
(* rounding.  avg_latency is kept in units of 0.0001 s (round(.., 4)).     *)
(* Scores are exact rationals <<num, den>>.                                *)
(*                                                                         *)
(* Concurrency.  generate is a coroutine: the code between two awaits runs *)
(* atomically on the event loop.  Its only await is call_provider, so one  *)
(* generate call is GenStart (up to the first adapter call), then one      *)
(* AdapterReturn per attempt (from the adapter's outcome up to the next    *)
(* adapter call or the return/raise).                                      *)
(***************************************************************************)
EXTENDS Integers, Sequences, FiniteSets, TLC

VARIABLES
    now,               \* time.time()
    providers_config,  \* LLMRouter.providers_config (fixed after load)
    cb,                \* LLMRouter.circuit_breakers: name -> CircuitBreaker
    provider_stats,    \* CostTracker.provider_stats: dict name -> stats
    usage_history,     \* CostTracker.usage_history
    pc,                \* per request-serving task: "idle" (no call yet),
                       \*   "calling" (awaiting an adapter), "done" (the
                       \*   last generate call returned or raised)
    sorted_providers,  \* generate's local sorted_providers
    idx,               \* position of the for loop in sorted_providers
    overall_start,     \* generate's local overall_start
    errors,            \* generate's local errors
    result,            \* what generate returned or raised
    calls,             \* observation: adapters invoked by this call, in order
    recs,              \* observation: ledger records written by this call
    reports,           \* observation: breaker reports made by this call
    admits,            \* observation: can_attempt() = True since the cooldown
                       \*   elapsed, reset by record_success/record_failure
    fails,             \* observation (SpecCB): times of the last `threshold`
                       \*   record_failure calls
    streak,            \* observation (SpecCB): record_failure calls since the
                       \*   last record_success, counted up to `threshold`
    nrec,              \* observation (ledger): number of record_usage calls
    sumcost,           \* observation (ledger): per provider, the sum of the
                       \*   costs passed with success = True
    stats_result,      \* observation (ledger): what the last get_stats() returned
    last_op,           \* observation (ledger): the last CostTracker call
    a_provider,        \* call_provider's argument provider
    a_pc,              \* the adapter call: "idle", "request" (awaiting the
                       \*   POST), "sleep" (awaiting asyncio.sleep(1)),
                       \*   "returned", "raised"
    a_attempt,         \* the adapter's loop variable attempt
    a_log,             \* observation: the awaits of the call so far, in order
    a_error            \* the error of the last failed request, or the raised one

vars == <<now, providers_config, cb, provider_stats, usage_history, pc,
          sorted_providers, idx, overall_start, errors, result, calls, recs,
          reports, admits, fails, streak, nrec, sumcost, stats_result,
          last_op, a_provider, a_pc, a_attempt, a_log, a_error>>

ledgerobs == <<nrec, sumcost, stats_result, last_op>>

adaptervars == <<a_provider, a_pc, a_attempt, a_log, a_error>>

taskvars == <<pc, sorted_providers, idx, overall_start, errors, result,
              calls, recs, reports>>

ledgervars == <<provider_stats, usage_history>>

----------------------------------------------------------------------------
(* Bounds of the model *)

StartTime == 300
MaxTime == 360
TimeStep == 60
MaxRecords == 5
NumTasks == 2
MaxFails == 4
CBTimeStep == 20
MinLatency == 1
CBMaxTime == 420

Tasks == 1..NumTasks

----------------------------------------------------------------------------
(* Program constants *)

threshold == 3
cooldown == 60
RecencyWindow == 300
LatencyLimit == 5
HistoryCap == 100
RecentCount == 10

NA == -1

Names == {"A", "B"}

ProviderA == [name |-> "A", cost_per_1k_tokens |-> 10]
ProviderB == [name |-> "B", cost_per_1k_tokens |-> 20]
ProviderB1 == [name |-> "B", cost_per_1k_tokens |-> 10]

Configs == { <<ProviderA>>, <<ProviderA, ProviderB>>, <<ProviderA, ProviderB1>> }

Responses == { [prompt_tokens |-> 10, completion_tokens |-> 0] }

----------------------------------------------------------------------------
(* CircuitBreaker *)

NewBreaker ==
    [threshold |-> threshold, cooldown |-> cooldown,
     failure_timestamps |-> <<>>, state |-> "closed",
     last_failure_time |-> 0, half_open_attempts |-> 0]

\* slip: a success on a closed breaker changes nothing
record_success_keep(b) ==
    IF b.state = "closed" THEN b
    ELSE [b EXCEPT !.failure_timestamps = <<>>,
                   !.state = "closed",
                   !.half_open_attempts = 0]

record_success(b) ==
    [b EXCEPT !.failure_timestamps = <<>>,
              !.state = "closed",
              !.half_open_attempts = 0]

Prune(ts, t, cd) == SelectSeq(ts, LAMBDA x : t - x < cd)

\* slip: the threshold comparison is strict
record_failure_strict(b, t) ==
    LET ts == Prune(Append(b.failure_timestamps, t), t, b.cooldown)
    IN  IF Len(ts) > b.threshold
        THEN [b EXCEPT !.failure_timestamps = ts,
                       !.state = "open",
                       !.last_failure_time = t,
                       !.half_open_attempts = 0]
        ELSE [b EXCEPT !.failure_timestamps = ts]

record_failure(b, t) ==
    LET ts == Prune(Append(b.failure_timestamps, t), t, b.cooldown)
    IN  IF Len(ts) >= b.threshold
        THEN [b EXCEPT !.failure_timestamps = ts,
                       !.state = "open",
                       !.last_failure_time = t,
                       !.half_open_attempts = 0]
        ELSE [b EXCEPT !.failure_timestamps = ts]

\* slip: the cooldown must be exceeded, not reached
can_attempt_late(b, t) ==
    IF b.state = "closed"
    THEN [ok |-> TRUE, cb |-> b]
    ELSE IF b.state = "open"
    THEN IF b.cooldown - (t - b.last_failure_time) < 0
         THEN [ok |-> TRUE,
               cb |-> [b EXCEPT !.state = "half-open",
                                !.half_open_attempts = 0]]
         ELSE [ok |-> FALSE, cb |-> b]
    ELSE IF b.half_open_attempts < 1
         THEN [ok |-> TRUE,
               cb |-> [b EXCEPT !.half_open_attempts = @ + 1]]
         ELSE [ok |-> FALSE, cb |-> b]

\* can_attempt returns a boolean and may change the breaker
can_attempt(b, t) ==
    IF b.state = "closed"
    THEN [ok |-> TRUE, cb |-> b]
    ELSE IF b.state = "open"
    THEN IF b.cooldown - (t - b.last_failure_time) <= 0
         THEN [ok |-> TRUE,
               cb |-> [b EXCEPT !.state = "half-open",
                                !.half_open_attempts = 0]]
         ELSE [ok |-> FALSE, cb |-> b]
    ELSE IF b.half_open_attempts < 1
         THEN [ok |-> TRUE,
               cb |-> [b EXCEPT !.half_open_attempts = @ + 1]]
         ELSE [ok |-> FALSE, cb |-> b]

----------------------------------------------------------------------------
(* CostTracker *)

NewStats ==
    [total_requests |-> 0, successful_requests |-> 0, failed_requests |-> 0,
     total_prompt_tokens |-> 0, total_completion_tokens |-> 0,
     total_cost |-> 0, total_latency |-> 0]

\* round(duration, 4): duration in seconds, result in 0.0001 s
RoundDuration(duration) == duration * 10000

UsageData(name, pt, ct, cost, success, duration) ==
    [provider |-> name, prompt_tokens |-> pt,
     completion_tokens |-> ct, total_tokens |-> pt + ct, cost |-> cost,
     success |-> success, duration_seconds |-> RoundDuration(duration)]

\* slip: at the cap the newest record is dropped instead of the oldest
HistoryAppend_dropnew(h, rec) ==
    LET h1 == Append(h, rec)
    IN  IF Len(h1) > HistoryCap THEN SubSeq(h1, 1, HistoryCap) ELSE h1

HistoryAppend(h, rec) ==
    LET h1 == Append(h, rec)
    IN  IF Len(h1) > HistoryCap THEN Tail(h1) ELSE h1

\* slip: a failed record is not counted in failed_requests
StatsAdd_nofail(st, pt, ct, cost, success, duration) ==
    IF success
    THEN [st EXCEPT !.total_requests = @ + 1,
                    !.successful_requests = @ + 1,
                    !.total_prompt_tokens = @ + pt,
                    !.total_completion_tokens = @ + ct,
                    !.total_cost = @ + cost,
                    !.total_latency = @ + duration]
    ELSE [st EXCEPT !.total_requests = @ + 1]

\* slip: the cost of a failed record is charged as well
StatsAdd_charge(st, pt, ct, cost, success, duration) ==
    IF success
    THEN [st EXCEPT !.total_requests = @ + 1,
                    !.successful_requests = @ + 1,
                    !.total_prompt_tokens = @ + pt,
                    !.total_completion_tokens = @ + ct,
                    !.total_cost = @ + cost,
                    !.total_latency = @ + duration]
    ELSE [st EXCEPT !.total_requests = @ + 1,
                    !.failed_requests = @ + 1,
                    !.total_cost = @ + cost]

StatsAdd(st, pt, ct, cost, success, duration) ==
    IF success
    THEN [st EXCEPT !.total_requests = @ + 1,
                    !.successful_requests = @ + 1,
                    !.total_prompt_tokens = @ + pt,
                    !.total_completion_tokens = @ + ct,
                    !.total_cost = @ + cost,
                    !.total_latency = @ + duration]
    ELSE [st EXCEPT !.total_requests = @ + 1,
                    !.failed_requests = @ + 1]

\* the provider_stats part of record_usage
record_usage(ps, name, pt, ct, cost, success, duration) ==
    LET ps1 == IF name \in DOMAIN ps THEN ps ELSE (name :> NewStats) @@ ps
    IN  [ps1 EXCEPT ![name] = StatsAdd(@, pt, ct, cost, success, duration)]

\* round(total_latency / successful_requests, 4) in 0.0001 s, half up
RoundAvg(total_latency, n) == (2 * 10000 * total_latency + n) \div (2 * n)

\* the value get_stats stores under "avg_latency": a number, or NA for "N/A"
AvgLatencyOf(st) ==
    IF st.successful_requests > 0 /\ st.total_latency # 0
    THEN RoundAvg(st.total_latency, st.successful_requests)
    ELSE NA

\* slip: reading the statistics counts as a request
get_stats_counting(ps) ==
    [n \in DOMAIN ps |->
        ("avg_latency" :> AvgLatencyOf(ps[n]))
            @@ [ps[n] EXCEPT !.total_requests = @ + 1]]

\* the mutation get_stats makes to provider_stats
get_stats(ps) ==
    [n \in DOMAIN ps |-> ("avg_latency" :> AvgLatencyOf(ps[n])) @@ ps[n]]

----------------------------------------------------------------------------
(* LLMRouter *)

NamesOf(cfg) == {cfg[i].name : i \in 1..Len(cfg)}

StatGet(ps, name, field, default) ==
    IF name \in DOMAIN ps /\ field \in DOMAIN ps[name]
    THEN ps[name][field] ELSE default

\* slip: a provider without a recorded latency is taken to be slow
_compute_dynamic_score_slow(provider, ps, cbs, t) ==
    LET base_cost == provider.cost_per_1k_tokens
        name == provider.name
        total_requests == StatGet(ps, name, "total_requests", 0)
        failed_requests == StatGet(ps, name, "failed_requests", 0)
        hasCb == name \in DOMAIN cbs
        recency10 == IF hasCb /\ t - cbs[name].last_failure_time < RecencyWindow
                     THEN 15 ELSE 10
        hasAvg == name \in DOMAIN ps /\ "avg_latency" \in DOMAIN ps[name]
        avg_latency == IF hasAvg THEN ps[name]["avg_latency"] ELSE 0
        truthy == hasAvg /\ avg_latency # 0
        raises == truthy /\ avg_latency = NA
        latency10 == IF ~truthy \/ (~raises /\ avg_latency > LatencyLimit * 10000)
                     THEN 12 ELSE 10
        den == IF total_requests > 0 THEN total_requests ELSE 1
    IN  [raises |-> raises,
         num |-> base_cost * (10 * den + failed_requests * recency10) * latency10,
         den |-> 100 * den,
         recency10 |-> recency10,
         latency10 |-> latency10]

\* _compute_dynamic_score: raises is the TypeError of "N/A" > 5; otherwise
\* the score is num / den
_compute_dynamic_score(provider, ps, cbs, t) ==
    LET base_cost == provider.cost_per_1k_tokens
        name == provider.name
        total_requests == StatGet(ps, name, "total_requests", 0)
        failed_requests == StatGet(ps, name, "failed_requests", 0)
        hasCb == name \in DOMAIN cbs
        recency10 == IF hasCb /\ t - cbs[name].last_failure_time < RecencyWindow
                     THEN 15 ELSE 10
        hasAvg == name \in DOMAIN ps /\ "avg_latency" \in DOMAIN ps[name]
        avg_latency == IF hasAvg THEN ps[name]["avg_latency"] ELSE 0
        truthy == hasAvg /\ avg_latency # 0
        raises == truthy /\ avg_latency = NA
        latency10 == IF truthy /\ ~raises /\ avg_latency > LatencyLimit * 10000
                     THEN 12 ELSE 10
        den == IF total_requests > 0 THEN total_requests ELSE 1
    IN  [raises |-> raises,
         num |-> base_cost * (10 * den + failed_requests * recency10) * latency10,
         den |-> 100 * den,
         recency10 |-> recency10,
         latency10 |-> latency10]

ScoreLess(a, b) == a.num * b.den < b.num * a.den

\* sorted(xs, key=...): stable, ascending.  keys is the sequence of keys.
\* slip: an element is placed before the elements of equal key
RECURSIVE InsertSorted_unstable(_, _, _, _)
InsertSorted_unstable(xs, ks, x, k) ==
    IF xs = <<>> THEN <<x>>
    ELSE IF ~ScoreLess(ks[1], k)
         THEN <<x>> \o xs
         ELSE <<xs[1]>> \o InsertSorted_unstable(Tail(xs), Tail(ks), x, k)

RECURSIVE InsertSorted(_, _, _, _)
InsertSorted(xs, ks, x, k) ==
    IF xs = <<>> THEN <<x>>
    ELSE IF ScoreLess(k, ks[1])
         THEN <<x>> \o xs
         ELSE <<xs[1]>> \o InsertSorted(Tail(xs), Tail(ks), x, k)

RECURSIVE InsertKey(_, _)
InsertKey(ks, k) ==
    IF ks = <<>> THEN <<k>>
    ELSE IF ScoreLess(k, ks[1])
         THEN <<k>> \o ks
         ELSE <<ks[1]>> \o InsertKey(Tail(ks), k)

RECURSIVE SortPairs(_, _)
SortPairs(xs, ks) ==
    IF xs = <<>> THEN [xs |-> <<>>, ks |-> <<>>]
    ELSE LET n == Len(xs)
             r == SortPairs(SubSeq(xs, 1, n - 1), SubSeq(ks, 1, n - 1))
         IN  [xs |-> InsertSorted(r.xs, r.ks, xs[n], ks[n]),
              ks |-> InsertKey(r.ks, ks[n])]

sorted(xs, ks) == SortPairs(xs, ks).xs

\* the filtering loop of _get_sorted_providers: calls can_attempt on every
\* configured provider in configuration order
\* slip: the breaker's answer is ignored
RECURSIVE Filter_all(_, _, _, _)
Filter_all(cfg, i, cbs, t) ==
    IF i > Len(cfg) THEN [available |-> <<>>, cbs |-> cbs]
    ELSE LET name == cfg[i].name
             r == can_attempt(cbs[name], t)
             rest == Filter_all(cfg, i + 1, [cbs EXCEPT ![name] = r.cb], t)
         IN  [available |-> <<cfg[i]>> \o rest.available,
              cbs |-> rest.cbs]

RECURSIVE Filter(_, _, _, _)
Filter(cfg, i, cbs, t) ==
    IF i > Len(cfg) THEN [available |-> <<>>, cbs |-> cbs]
    ELSE LET name == cfg[i].name
             r == can_attempt(cbs[name], t)
             rest == Filter(cfg, i + 1, [cbs EXCEPT ![name] = r.cb], t)
         IN  [available |-> IF r.ok THEN <<cfg[i]>> \o rest.available
                            ELSE rest.available,
              cbs |-> rest.cbs]

\* _get_sorted_providers: raises when a score raises
_get_sorted_providers(cfg, cbs, ps, t) ==
    LET f == Filter(cfg, 1, cbs, t)
        keys == [i \in 1..Len(f.available) |->
                    _compute_dynamic_score(f.available[i], ps, f.cbs, t)]
        raises == \E i \in 1..Len(keys) : keys[i].raises
    IN  [raises |-> raises,
         sorted_providers |-> IF raises THEN <<>> ELSE sorted(f.available, keys),
         cbs |-> f.cbs]

\* _calculate_cost in micro-dollars; rates are in 0.0001 $ per 1k tokens
_calculate_cost(provider, pt, ct) ==
    (pt * provider.cost_per_1k_tokens + ct * provider.cost_per_1k_tokens + 5) \div 10

----------------------------------------------------------------------------
(* State machine *)

\* no get_stats() call has returned yet
NoStatsResult ==
    [overall |-> [total_cost |-> 0, total_tokens |-> 0, total_requests |-> 0],
     recent_requests |-> << >>]

\* no adapter call has been made yet
NoProvider == [type |-> "", api_key |-> "", max_retries |-> 0]

NoResult == [kind |-> "none", provider_used |-> "", cost |-> 0, errors |-> <<>>]

LastN(sq, n) == IF Len(sq) > n THEN SubSeq(sq, Len(sq) - n + 1, Len(sq)) ELSE sq

\* observation of one can_attempt() call on breaker b
AdmitsAfter(a, b, ok) ==
    IF b.state = "closed" THEN a
    ELSE IF ok THEN a + 1 ELSE a

Init ==
    /\ now = StartTime
    /\ providers_config \in Configs
    /\ cb = [n \in NamesOf(providers_config) |-> NewBreaker]
    /\ provider_stats = << >>
    /\ usage_history = << >>
    /\ pc = [t \in Tasks |-> "idle"]
    /\ sorted_providers = [t \in Tasks |-> << >>]
    /\ idx = [t \in Tasks |-> 0]
    /\ overall_start = [t \in Tasks |-> 0]
    /\ errors = [t \in Tasks |-> << >>]
    /\ result = [t \in Tasks |-> NoResult]
    /\ calls = [t \in Tasks |-> << >>]
    /\ recs = [t \in Tasks |-> << >>]
    /\ reports = [t \in Tasks |-> << >>]
    /\ admits = [n \in NamesOf(providers_config) |-> 0]
    /\ fails = [n \in NamesOf(providers_config) |-> << >>]
    /\ streak = [n \in NamesOf(providers_config) |-> 0]
    /\ nrec = 0
    /\ sumcost = << >>
    /\ stats_result = NoStatsResult
    /\ last_op = "none"
    /\ a_provider = NoProvider
    /\ a_pc = "idle"
    /\ a_attempt = 0
    /\ a_log = << >>
    /\ a_error = "none"

\* the clock advances
Tick ==
    /\ now + TimeStep <= MaxTime
    /\ now' = now + TimeStep
    /\ UNCHANGED <<providers_config, cb, ledgervars, taskvars, admits, fails, streak, ledgerobs, adaptervars>>

\* ledger records written so far
RECURSIVE SumOver(_, _)
SumOver(ps, field) ==
    IF DOMAIN ps = {} THEN 0
    ELSE LET n == CHOOSE n \in DOMAIN ps : TRUE
         IN  ps[n][field] + SumOver([m \in DOMAIN ps \ {n} |-> ps[m]], field)

TotalRequests(ps) == SumOver(ps, "total_requests")

\* attempts the calls in flight may still make
RECURSIVE CommittedUpTo(_)
CommittedUpTo(t) ==
    IF t = 0 THEN 0
    ELSE CommittedUpTo(t - 1) +
         (IF pc[t] = "calling" THEN Len(sorted_providers[t]) - idx[t] + 1 ELSE 0)

Committed == CommittedUpTo(NumTasks)

\* time.time() - overall_start after an awaited adapter call.  The call takes
\* time even when the model's clock has not ticked since the call started.
Elapsed(t) ==
    IF now > overall_start[t] THEN now - overall_start[t] ELSE MinLatency

\* generate returns or raises.  The observations of the call (and the
\* ranking it used) are kept until the task's next call.
Return(t, res) ==
    /\ pc' = [pc EXCEPT ![t] = "done"]
    /\ result' = [result EXCEPT ![t] = res]
    /\ idx' = [idx EXCEPT ![t] = 0]
    /\ overall_start' = [overall_start EXCEPT ![t] = 0]
    /\ errors' = [errors EXCEPT ![t] = << >>]

\* generate, from its entry to the first await (or to the raise): lines 109-126
\* generate up to its first await, while the ledger stays within `budget`
\* records
GenStartWithin(t, budget) ==
    /\ pc[t] \in {"idle", "done"}
    /\ LET r == _get_sorted_providers(providers_config, cb, provider_stats, now)
       IN  /\ TotalRequests(provider_stats) + Committed + Len(r.sorted_providers) <= budget
           /\ cb' = r.cbs
           /\ admits' = [n \in DOMAIN admits |->
                            AdmitsAfter(admits[n], cb[n], can_attempt(cb[n], now).ok)]
           /\ sorted_providers' = [sorted_providers EXCEPT ![t] = r.sorted_providers]
           /\ recs' = [recs EXCEPT ![t] = << >>]
           /\ reports' = [reports EXCEPT ![t] = << >>]
           /\ IF r.raises
              THEN /\ Return(t, [NoResult EXCEPT !.kind = "TypeError"])
                   /\ calls' = [calls EXCEPT ![t] = << >>]
              ELSE IF r.sorted_providers = << >>
              THEN /\ Return(t, [NoResult EXCEPT !.kind = "no_providers"])
                   /\ calls' = [calls EXCEPT ![t] = << >>]
              ELSE /\ pc' = [pc EXCEPT ![t] = "calling"]
                   /\ result' = [result EXCEPT ![t] = NoResult]
                   /\ overall_start' = [overall_start EXCEPT ![t] = now]
                   /\ errors' = [errors EXCEPT ![t] = << >>]
                   /\ idx' = [idx EXCEPT ![t] = 1]
                   /\ calls' = [calls EXCEPT ![t] = <<r.sorted_providers[1].name>>]
    /\ UNCHANGED <<now, providers_config, ledgervars, fails, streak, ledgerobs, adaptervars>>

GenStart(t) == GenStartWithin(t, MaxRecords)

\* slip: the success is not reported to the circuit breaker
AttemptSucceeds_noreport(t, resp) ==
    /\ pc[t] = "calling"
    /\ LET provider == sorted_providers[t][idx[t]]
           name == provider.name
           pt == resp.prompt_tokens
           ct == resp.completion_tokens
           cost == _calculate_cost(provider, pt, ct)
           duration == Elapsed(t)
           rec == UsageData(name, pt, ct, cost, TRUE, duration)
       IN  /\ provider_stats' = record_usage(provider_stats, name, pt, ct, cost, TRUE, duration)
           /\ usage_history' = HistoryAppend(usage_history, rec)
           /\ recs' = [recs EXCEPT ![t] = Append(@, rec)]
           /\ Return(t, [kind |-> "success", provider_used |-> name,
                         cost |-> cost, errors |-> << >>])
    /\ UNCHANGED <<now, providers_config, cb, admits, reports, fails, streak, ledgerobs, adaptervars,
                   sorted_providers, calls>>

\* the adapter returned a response with text: lines 131-152
AttemptSucceeds(t, resp) ==
    /\ pc[t] = "calling"
    /\ LET provider == sorted_providers[t][idx[t]]
           name == provider.name
           pt == resp.prompt_tokens
           ct == resp.completion_tokens
           cost == _calculate_cost(provider, pt, ct)
           duration == Elapsed(t)
           rec == UsageData(name, pt, ct, cost, TRUE, duration)
       IN  /\ provider_stats' = record_usage(provider_stats, name, pt, ct, cost, TRUE, duration)
           /\ usage_history' = HistoryAppend(usage_history, rec)
           /\ cb' = [cb EXCEPT ![name] = record_success(@)]
           /\ admits' = [admits EXCEPT ![name] = 0]
           /\ recs' = [recs EXCEPT ![t] = Append(@, rec)]
           /\ reports' = [reports EXCEPT ![t] = Append(@, <<name, "success">>)]
           /\ Return(t, [kind |-> "success", provider_used |-> name,
                         cost |-> cost, errors |-> << >>])
    /\ UNCHANGED <<now, providers_config, fails, streak, ledgerobs, adaptervars, sorted_providers, calls>>

\* slip: the loop moves on without reporting the failure to the breaker
AttemptFails_noreport(t) ==
    /\ pc[t] = "calling"
    /\ LET provider == sorted_providers[t][idx[t]]
           name == provider.name
           duration == Elapsed(t)
           rec == UsageData(name, 0, 0, 0, FALSE, duration)
           errs == Append(errors[t], name)
       IN  /\ provider_stats' = record_usage(provider_stats, name, 0, 0, 0, FALSE, duration)
           /\ usage_history' = HistoryAppend(usage_history, rec)
           /\ recs' = [recs EXCEPT ![t] = Append(@, rec)]
           /\ IF idx[t] = Len(sorted_providers[t])
              THEN /\ Return(t, [NoResult EXCEPT !.kind = "all_failed", !.errors = errs])
                   /\ UNCHANGED calls
              ELSE /\ idx' = [idx EXCEPT ![t] = @ + 1]
                   /\ errors' = [errors EXCEPT ![t] = errs]
                   /\ calls' = [calls EXCEPT ![t] =
                          Append(@, sorted_providers[t][idx[t] + 1].name)]
                   /\ UNCHANGED <<pc, result, overall_start>>
    /\ UNCHANGED <<now, providers_config, cb, admits, reports, fails, streak, ledgerobs, adaptervars,
                   sorted_providers>>

\* slip: errors is overwritten instead of appended to
AttemptFails_overwrite(t) ==
    /\ pc[t] = "calling"
    /\ LET provider == sorted_providers[t][idx[t]]
           name == provider.name
           duration == Elapsed(t)
           rec == UsageData(name, 0, 0, 0, FALSE, duration)
           errs == <<name>>
       IN  /\ provider_stats' = record_usage(provider_stats, name, 0, 0, 0, FALSE, duration)
           /\ usage_history' = HistoryAppend(usage_history, rec)
           /\ cb' = [cb EXCEPT ![name] = record_failure(@, now)]
           /\ admits' = [admits EXCEPT ![name] = 0]
           /\ recs' = [recs EXCEPT ![t] = Append(@, rec)]
           /\ reports' = [reports EXCEPT ![t] = Append(@, <<name, "failure">>)]
           /\ IF idx[t] = Len(sorted_providers[t])
              THEN /\ Return(t, [NoResult EXCEPT !.kind = "all_failed", !.errors = errs])
                   /\ UNCHANGED calls
              ELSE /\ idx' = [idx EXCEPT ![t] = @ + 1]
                   /\ errors' = [errors EXCEPT ![t] = errs]
                   /\ calls' = [calls EXCEPT ![t] =
                          Append(@, sorted_providers[t][idx[t] + 1].name)]
                   /\ UNCHANGED <<pc, result, overall_start>>
    /\ UNCHANGED <<now, providers_config, fails, streak, ledgerobs, adaptervars, sorted_providers>>

\* the adapter raised, or its response had no text (line 129), or the
\* success path raised: lines 154-163.  The error text str(e) is not kept;
\* an entry of errors is the provider's name.
AttemptFails(t) ==
    /\ pc[t] = "calling"
    /\ LET provider == sorted_providers[t][idx[t]]
           name == provider.name
           duration == Elapsed(t)
           rec == UsageData(name, 0, 0, 0, FALSE, duration)
           errs == Append(errors[t], name)
       IN  /\ provider_stats' = record_usage(provider_stats, name, 0, 0, 0, FALSE, duration)
           /\ usage_history' = HistoryAppend(usage_history, rec)
           /\ cb' = [cb EXCEPT ![name] = record_failure(@, now)]
           /\ admits' = [admits EXCEPT ![name] = 0]
           /\ recs' = [recs EXCEPT ![t] = Append(@, rec)]
           /\ reports' = [reports EXCEPT ![t] = Append(@, <<name, "failure">>)]
           /\ IF idx[t] = Len(sorted_providers[t])
              THEN /\ Return(t, [NoResult EXCEPT !.kind = "all_failed", !.errors = errs])
                   /\ UNCHANGED calls
              ELSE /\ idx' = [idx EXCEPT ![t] = @ + 1]
                   /\ errors' = [errors EXCEPT ![t] = errs]
                   /\ calls' = [calls EXCEPT ![t] =
                          Append(@, sorted_providers[t][idx[t] + 1].name)]
                   /\ UNCHANGED <<pc, result, overall_start>>
    /\ UNCHANGED <<now, providers_config, fails, streak, ledgerobs, adaptervars, sorted_providers>>

\* GET /stats
GetStats ==
    /\ provider_stats' = get_stats(provider_stats)
    /\ UNCHANGED <<now, providers_config, cb, usage_history, taskvars, admits, fails, streak, ledgerobs, adaptervars>>

Next ==
    \/ Tick
    \/ \E t \in Tasks : GenStart(t)
    \/ \E t \in Tasks : \E resp \in Responses : AttemptSucceeds(t, resp)
    \/ \E t \in Tasks : AttemptFails(t)
    \/ GetStats

Spec == Init /\ [][Next]_vars

TypeOK ==
    /\ now \in StartTime..MaxTime
    /\ \A t \in Tasks : pc[t] \in {"idle", "calling", "done"}

----------------------------------------------------------------------------
(* One CircuitBreaker under every sequence of calls: the breaker of the    *)
(* first configured provider, called in any order at any time.             *)

CBName == providers_config[1].name

othervars == <<providers_config, ledgervars, pc, sorted_providers, idx,
               overall_start, errors, result, calls, recs, reports,
               ledgerobs, adaptervars>>

CBTick ==
    /\ now + CBTimeStep <= CBMaxTime
    /\ now' = now + CBTimeStep
    /\ UNCHANGED <<cb, admits, fails, streak, othervars>>

CBRecordSuccess ==
    /\ cb' = [cb EXCEPT ![CBName] = record_success(@)]
    /\ admits' = [admits EXCEPT ![CBName] = 0]
    /\ streak' = [streak EXCEPT ![CBName] = 0]
    /\ UNCHANGED <<now, fails, othervars>>

CBRecordFailure ==
    /\ Len(cb[CBName].failure_timestamps) < MaxFails
    /\ cb' = [cb EXCEPT ![CBName] = record_failure(@, now)]
    /\ admits' = [admits EXCEPT ![CBName] = 0]
    /\ fails' = [fails EXCEPT ![CBName] = LastN(Append(@, now), threshold)]
    /\ streak' = [streak EXCEPT ![CBName] = IF @ < threshold THEN @ + 1 ELSE @]
    /\ UNCHANGED <<now, othervars>>

CBCanAttempt ==
    /\ LET r == can_attempt(cb[CBName], now)
       IN  /\ cb' = [cb EXCEPT ![CBName] = r.cb]
           /\ admits' = [admits EXCEPT ![CBName] = AdmitsAfter(@, cb[CBName], r.ok)]
    /\ UNCHANGED <<now, fails, streak, othervars>>

NextCB ==
    \/ CBTick
    \/ CBRecordSuccess
    \/ CBRecordFailure
    \/ CBCanAttempt

SpecCB == Init /\ [][NextCB]_vars

----------------------------------------------------------------------------
(* Properties of the circuit breaker *)

\* the last `threshold` record_failure calls fell within one cooldown window
ThresholdFailuresInWindow(n) ==
    /\ Len(fails[n]) = threshold
    /\ fails[n][threshold] - fails[n][1] < cooldown

CooldownRunning(n) == now - cb[n].last_failure_time < cooldown

\* C1 as stated: once `threshold` record_failure() calls have occurred within
\* one cooldown window, can_attempt() returns false until `cooldown` seconds
\* have elapsed since last_failure_time, whatever other calls were made.
C1_BlockedAfterThreshold ==
    (ThresholdFailuresInWindow(CBName) /\ CooldownRunning(CBName))
        => ~can_attempt(cb[CBName], now).ok

\* C1 amended: once `threshold` record_failure() calls have occurred within
\* one cooldown window with no record_success() between or after them,
\* can_attempt() returns false until `cooldown` seconds have elapsed since
\* last_failure_time.
C1_BlockedUnlessSuccess ==
    (/\ ThresholdFailuresInWindow(CBName)
     /\ streak[CBName] >= threshold
     /\ CooldownRunning(CBName))
        => (cb[CBName].state = "open" /\ ~can_attempt(cb[CBName], now).ok)

\* the breaker opened on failures at different times and is still blocking
\* after the clock moved on
C1_Witness ==
    /\ ThresholdFailuresInWindow(CBName)
    /\ streak[CBName] >= threshold
    /\ CooldownRunning(CBName)
    /\ fails[CBName][1] < fails[CBName][threshold]
    /\ now > cb[CBName].last_failure_time
    /\ ~can_attempt(cb[CBName], now).ok

\* the step of task t is the failure report of an attempt on provider n
FailureReported(t, n) ==
    /\ pc[t] = "calling"
    /\ sorted_providers[t][idx[t]].name = n
    /\ AttemptFails(t)

\* C2 as stated: after the cooldown of an open breaker has elapsed, at most
\* one can_attempt() returns true before the next record_success() or
\* record_failure() on that breaker.
C2_OneProbe == \A n \in DOMAIN admits : admits[n] <= 1

\* C3 as stated: record_failure() on a half-open breaker leaves it open with
\* last_failure_time equal to the time of the call.
C3_HalfOpenFailureReopens ==
    [][\A t \in Tasks : \A n \in DOMAIN cb :
          (FailureReported(t, n) /\ cb[n].state = "half-open")
              => (cb'[n].state = "open" /\ cb'[n].last_failure_time = now)]_vars

\* C4: when an open breaker's cooldown has elapsed, the next can_attempt()
\* returns true, and a record_success() after it leaves the breaker closed
\* with no failure timestamps and half_open_attempts = 0.
C4_ProbeThenClose ==
    /\ [](\A n \in DOMAIN cb :
            (cb[n].state = "open" /\ ~CooldownRunning(n))
                => (/\ can_attempt(cb[n], now).ok
                    /\ can_attempt(cb[n], now).cb.state = "half-open"))
    /\ [][(CBRecordSuccess /\ cb[CBName].state = "half-open")
             => (/\ cb'[CBName].state = "closed"
                 /\ cb'[CBName].failure_timestamps = << >>
                 /\ cb'[CBName].half_open_attempts = 0)]_vars

\* a breaker that opened, was probed once the cooldown had elapsed, and was
\* closed by the probe's success
C4_Witness ==
    /\ cb[CBName].state = "closed"
    /\ cb[CBName].last_failure_time > 0
    /\ ~CooldownRunning(CBName)
    /\ Len(fails[CBName]) = threshold
    /\ streak[CBName] = 0
    /\ cb[CBName].failure_timestamps = << >>
    /\ cb[CBName].half_open_attempts = 0

----------------------------------------------------------------------------
(* Properties of generate *)

\* the names of the ranking the last call of task t used
RankedNames(t) == [i \in 1..Len(sorted_providers[t]) |-> sorted_providers[t][i].name]

FailedRecord(rec, n) ==
    /\ rec.provider = n
    /\ ~rec.success
    /\ rec.prompt_tokens = 0
    /\ rec.completion_tokens = 0
    /\ rec.total_tokens = 0
    /\ rec.cost = 0

SuccessRecord(rec, n) == rec.provider = n /\ rec.success

\* the first i providers of the ranking of task t were attempted and failed,
\* each with one failed ledger record and one failure report, in order
FailedPrefix(t, i) ==
    /\ i <= Len(recs[t])
    /\ i <= Len(reports[t])
    /\ \A j \in 1..i :
          /\ FailedRecord(recs[t][j], RankedNames(t)[j])
          /\ reports[t][j] = <<RankedNames(t)[j], "failure">>

\* C5 as stated: generate returns a response or raises one of the two
\* terminal errors; nothing else escapes it, also after get_stats() calls.
C5_OnlyTerminalErrors ==
    \A t \in Tasks :
        result[t].kind \in {"none", "success", "no_providers", "all_failed"}

\* the ledger and the breaker of provider n took a failure at time `now`
FailureTaken(n) ==
    /\ n \in DOMAIN provider_stats'
    /\ provider_stats'[n].failed_requests =
          StatGet(provider_stats, n, "failed_requests", 0) + 1
    /\ provider_stats'[n].total_requests =
          StatGet(provider_stats, n, "total_requests", 0) + 1
    /\ Len(usage_history') > 0
    /\ FailedRecord(usage_history'[Len(usage_history')], n)
    /\ cb'[n].failure_timestamps # << >>
    /\ cb'[n].failure_timestamps[Len(cb'[n].failure_timestamps)] = now

\* C6: within one generate call the providers are attempted one at a time in
\* ranked order, and the adapter of the next provider is invoked only when
\* the previous attempt's outcome is in the ledger and in that provider's
\* circuit breaker.
C6_SequentialAttempts ==
    /\ [](\A t \in Tasks :
            pc[t] = "calling" =>
                /\ idx[t] \in 1..Len(sorted_providers[t])
                /\ calls[t] = SubSeq(RankedNames(t), 1, idx[t])
                /\ Len(recs[t]) = idx[t] - 1
                /\ Len(reports[t]) = idx[t] - 1
                /\ FailedPrefix(t, idx[t] - 1))
    /\ [][\A t \in Tasks :
            (Len(calls[t]) >= 1 /\ calls'[t] # calls[t] /\ pc[t] = "calling")
                => (/\ calls'[t] = Append(calls[t], RankedNames(t)[idx[t] + 1])
                    /\ FailureTaken(calls[t][Len(calls[t])]))]_vars

\* one call has failed over from A to B and is waiting for B's adapter
C6_Witness ==
    \E t \in Tasks :
        /\ pc[t] = "calling"
        /\ calls[t] = <<"A", "B">>
        /\ Len(recs[t]) = 1
        /\ reports[t] = << <<"A", "failure">> >>
        /\ provider_stats["A"].failed_requests >= 1
        /\ cb["A"].failure_timestamps # << >>

\* position of provider n in the ranking of task t
RankOf(t, n) == CHOOSE i \in 1..Len(sorted_providers[t]) : RankedNames(t)[i] = n

\* C7: when generate returns successfully with provider_used = P, every
\* provider ranked before P got exactly one failed ledger record (tokens 0,
\* cost 0) and one record_failure from this call, P got exactly one successful
\* ledger record and one record_success, and no provider ranked after P was
\* invoked or recorded by this call.
C7_SuccessAccounting ==
    /\ [](\A t \in Tasks :
            (pc[t] = "done" /\ result[t].kind = "success") =>
                LET P == result[t].provider_used
                    k == RankOf(t, P)
                IN  /\ P \in {RankedNames(t)[i] : i \in 1..Len(sorted_providers[t])}
                    /\ calls[t] = SubSeq(RankedNames(t), 1, k)
                    /\ Len(recs[t]) = k
                    /\ Len(reports[t]) = k
                    /\ FailedPrefix(t, k - 1)
                    /\ SuccessRecord(recs[t][k], P)
                    /\ reports[t][k] = <<P, "success">>
                    /\ recs[t][k].cost = result[t].cost)
    /\ [][\A t \in Tasks :
            (pc[t] = "calling" /\ pc'[t] = "done" /\ result'[t].kind = "success")
                => LET P == result'[t].provider_used
                   IN  /\ P = RankedNames(t)[idx[t]]
                       /\ provider_stats'[P].successful_requests =
                             StatGet(provider_stats, P, "successful_requests", 0) + 1
                       /\ provider_stats'[P].total_requests =
                             StatGet(provider_stats, P, "total_requests", 0) + 1
                       /\ cb'[P].state = "closed"
                       /\ cb'[P].failure_timestamps = << >>
                       /\ Len(usage_history') = Len(usage_history) + 1
                       /\ \A n \in DOMAIN cb \ {P} :
                             /\ cb'[n] = cb[n]
                             /\ (n \in DOMAIN provider_stats') = (n \in DOMAIN provider_stats)
                             /\ n \in DOMAIN provider_stats
                                   => provider_stats'[n] = provider_stats[n]]_vars

\* a call that failed on its first provider and succeeded on its second
C7_Witness ==
    \E t \in Tasks :
        /\ pc[t] = "done"
        /\ result[t].kind = "success"
        /\ Len(sorted_providers[t]) = 2
        /\ result[t].provider_used = RankedNames(t)[2]
        /\ Len(recs[t]) = 2
        /\ ~recs[t][1].success
        /\ recs[t][2].success

NoneAdmits == \A n \in DOMAIN cb : ~can_attempt(cb[n], now).ok

C9_AllFailed ==
    /\ [](\A t \in Tasks :
            (pc[t] = "done" /\ result[t].kind = "all_failed") =>
                /\ Len(sorted_providers[t]) >= 1
                /\ result[t].errors = RankedNames(t)
                /\ calls[t] = RankedNames(t)
                /\ Len(recs[t]) = Len(sorted_providers[t])
                /\ Len(reports[t]) = Len(sorted_providers[t])
                /\ FailedPrefix(t, Len(sorted_providers[t])))
    /\ [](\A t \in Tasks :
            (/\ pc[t] = "done"
             /\ Len(sorted_providers[t]) >= 1
             /\ Len(recs[t]) = Len(sorted_providers[t])
             /\ \A i \in 1..Len(recs[t]) : ~recs[t][i].success)
                => result[t].kind = "all_failed")
    /\ [][\A t \in Tasks :
            (pc[t] = "calling" /\ pc'[t] = "done" /\ result'[t].kind = "all_failed")
                => FailureTaken(RankedNames(t)[idx[t]])]_vars

\* a call whose two providers both failed
C9_Witness ==
    \E t \in Tasks :
        /\ pc[t] = "done"
        /\ result[t].kind = "all_failed"
        /\ result[t].errors = <<"A", "B">>
        /\ Len(recs[t]) = 2

\* the admissible providers in configuration order, and their scores, as
\* generate finds them on entry
Admissible == SelectSeq(providers_config, LAMBDA p : can_attempt(cb[p.name], now).ok)

ScoreOf(p) == _compute_dynamic_score(p, provider_stats, cb, now)

ConfigIndex(p) == CHOOSE i \in 1..Len(providers_config) : providers_config[i] = p

\* s is Admissible sorted by ascending score, equal scores in configuration
\* order
RankedStable(s) ==
    /\ Len(s) = Len(Admissible)
    /\ {s[i] : i \in 1..Len(s)} = {Admissible[i] : i \in 1..Len(Admissible)}
    /\ \A i, j \in 1..Len(s) :
          i < j =>
              /\ ~ScoreLess(ScoreOf(s[j]), ScoreOf(s[i]))
              /\ ~ScoreLess(ScoreOf(s[i]), ScoreOf(s[j]))
                    => ConfigIndex(s[i]) < ConfigIndex(s[j])

\* C10: generate attempts the admissible providers in ascending order of
\* dynamic score, providers of equal score in configuration order; two
\* healthy providers without history, A at 0.001 and B at 0.002, give A first.
C10_RankedOrder ==
    /\ [][\A t \in Tasks :
            (GenStart(t) /\ result'[t].kind # "TypeError")
                => (/\ RankedStable(sorted_providers'[t])
                    /\ sorted_providers'[t] # << >>
                          => calls'[t] = <<sorted_providers'[t][1].name>>
                    /\ (/\ providers_config = <<ProviderA, ProviderB>>
                        /\ provider_stats = << >>
                        /\ \A n \in DOMAIN cb : cb[n].state = "closed")
                          => calls'[t] = <<"A">>)]_vars
    /\ [](\A t \in Tasks :
            /\ Len(calls[t]) <= Len(sorted_providers[t])
            /\ calls[t] = SubSeq(RankedNames(t), 1, Len(calls[t])))

\* the cheaper of two fresh providers is being attempted first, and two
\* providers of equal score are ranked in configuration order
C10_Witness ==
    \E t \in Tasks :
        /\ pc[t] = "calling"
        /\ provider_stats = << >>
        /\ Len(sorted_providers[t]) = 2
        /\ calls[t] = <<"A">>
        /\ sorted_providers[t] = providers_config

----------------------------------------------------------------------------
(* Properties of the dynamic score *)

Configured == {providers_config[i] : i \in 1..Len(providers_config)}

\* the ledger holds exactly one record for provider p, a failed one
OneFailedRecord(p) ==
    /\ p.name \in DOMAIN provider_stats
    /\ provider_stats[p.name].total_requests = 1
    /\ provider_stats[p.name].failed_requests = 1

\* C11 as stated: after provider A's first failed attempt its score is
\* cost_A * 2.5 (fail ratio 1.0, recency 1.5, latency 1.0), so a provider B
\* without history and with cost_B < cost_A * 2.5 is ranked before A.
C11_FirstFailureScore ==
    \A p \in Configured :
        (OneFailedRecord(p) /\ ~ScoreOf(p).raises) =>
            /\ ScoreOf(p).recency10 = 15
            /\ ScoreOf(p).latency10 = 10
            /\ 10 * ScoreOf(p).num = 25 * p.cost_per_1k_tokens * ScoreOf(p).den
            /\ \A q \in Configured :
                  (/\ q.name \notin DOMAIN provider_stats
                   /\ 10 * q.cost_per_1k_tokens < 25 * p.cost_per_1k_tokens)
                      => ScoreLess(ScoreOf(q), ScoreOf(p))

\* C12 as stated: for a provider without successful attempts the score is
\* computed (nothing is raised) with latency factor 1.0, in every state that
\* record_usage, get_stats and generate calls can reach.
C12_UndefinedLatency ==
    \A p \in Configured :
        StatGet(provider_stats, p.name, "successful_requests", 0) = 0
            => (~ScoreOf(p).raises /\ ScoreOf(p).latency10 = 10)

\* C13: a provider without ledger history scores exactly its
\* cost_per_1k_tokens.
C13_NoHistoryScore ==
    \A p \in Configured :
        p.name \notin DOMAIN provider_stats
            => (/\ ~ScoreOf(p).raises
                /\ ScoreOf(p).num = p.cost_per_1k_tokens * ScoreOf(p).den)

\* B has no history while A has failed, the ledger has been read by
\* get_stats() and the clock has moved on
C13_Witness ==
    /\ Len(providers_config) = 2
    /\ "B" \notin DOMAIN provider_stats
    /\ "A" \in DOMAIN provider_stats
    /\ "avg_latency" \in DOMAIN provider_stats["A"]
    /\ now > StartTime
    /\ ScoreOf(providers_config[2]).num
          = providers_config[2].cost_per_1k_tokens * ScoreOf(providers_config[2]).den

----------------------------------------------------------------------------
(* The cost tracker on its own: record_usage and get_stats called with
   arbitrary arguments.  Token counts, micro-dollar costs and durations are
   non-zero for failed records too. *)

MaxLedgerCalls == 3

LedgerTokens == {10}
LedgerCompletions == {5}
LedgerCosts == {20, 30}
LedgerDurations == {2}

\* what get_stats returns (the "providers" entry is provider_stats itself);
\* round(total_cost, 6) is exact on micro-dollars
get_stats_return(ps, h) ==
    [overall |-> [total_cost |-> SumOver(ps, "total_cost"),
                  total_tokens |-> SumOver(ps, "total_prompt_tokens")
                                     + SumOver(ps, "total_completion_tokens"),
                  total_requests |-> SumOver(ps, "total_requests")],
     recent_requests |-> LastN(h, RecentCount)]

SumCostOf(n) == IF n \in DOMAIN sumcost THEN sumcost[n] ELSE 0

ledgerothers == <<now, providers_config, cb, taskvars, admits, fails, streak,
                  adaptervars>>

\* one record_usage call
RecordUsage(name, pt, ct, cost, success, duration) ==
    /\ usage_history' = HistoryAppend(usage_history,
                            UsageData(name, pt, ct, cost, success, duration))
    /\ provider_stats' = record_usage(provider_stats, name, pt, ct, cost,
                                      success, duration)
    /\ nrec' = nrec + 1
    /\ sumcost' = (name :> (SumCostOf(name) + IF success THEN cost ELSE 0))
                      @@ sumcost
    /\ last_op' = "record_usage"
    /\ UNCHANGED <<stats_result, ledgerothers>>

LRecord(name, pt, ct, cost, success, duration) ==
    /\ nrec < MaxLedgerCalls
    /\ RecordUsage(name, pt, ct, cost, success, duration)

\* one get_stats call
LGetStats ==
    /\ provider_stats' = get_stats(provider_stats)
    /\ stats_result' = get_stats_return(provider_stats, usage_history)
    /\ last_op' = "get_stats"
    /\ UNCHANGED <<usage_history, nrec, sumcost, ledgerothers>>

NextLedger ==
    \/ \E name \in Names, pt \in LedgerTokens, ct \in LedgerCompletions,
          cost \in LedgerCosts, success \in BOOLEAN,
          duration \in LedgerDurations :
            LRecord(name, pt, ct, cost, success, duration)
    \/ LGetStats

SpecLedger == Init /\ [][NextLedger]_vars

(* A long run of record_usage calls, the k-th call being RecordNo(k), with
   get_stats called at any point in between. *)

MaxHistoryCalls == 104

HName(k) == IF k % 2 = 1 THEN "A" ELSE "B"
HSuccess(k) == k % 3 # 0
RecordNo(k) == UsageData(HName(k), k, 1, 20, HSuccess(k), 2)

HRecord ==
    /\ nrec < MaxHistoryCalls
    /\ RecordUsage(HName(nrec + 1), nrec + 1, 1, 20, HSuccess(nrec + 1), 2)

NextHistory == HRecord \/ LGetStats

SpecHistory == Init /\ [][NextHistory]_vars

----------------------------------------------------------------------------
(* Properties of the cost tracker *)

\* C14: after any sequence of record_usage calls, for every provider
\* total_requests = successful_requests + failed_requests.
C14_RequestsAddUp ==
    \A n \in DOMAIN provider_stats :
        provider_stats[n].total_requests
            = provider_stats[n].successful_requests
                + provider_stats[n].failed_requests

\* a provider with a successful and a failed record
C14_Witness ==
    \E n \in DOMAIN provider_stats :
        /\ provider_stats[n].successful_requests > 0
        /\ provider_stats[n].failed_requests > 0
        /\ last_op = "record_usage"

Accumulators(ps, n) ==
    <<StatGet(ps, n, "total_prompt_tokens", 0),
      StatGet(ps, n, "total_completion_tokens", 0),
      StatGet(ps, n, "total_cost", 0),
      StatGet(ps, n, "total_latency", 0)>>

\* C15: a record_usage call with success = false leaves the provider's
\* total_prompt_tokens, total_completion_tokens, total_cost and total_latency
\* unchanged whatever tokens, cost and duration are passed, and in every state
\* each provider's total_cost is the sum of the costs of its successful
\* records.
C15_FailedAddsNothing ==
    /\ [][\A name \in Names, pt \in LedgerTokens, ct \in LedgerCompletions,
             cost \in LedgerCosts, duration \in LedgerDurations :
               LRecord(name, pt, ct, cost, FALSE, duration)
                 => Accumulators(provider_stats', name)
                      = Accumulators(provider_stats, name)]_vars
    /\ [](\A n \in DOMAIN provider_stats :
             provider_stats[n].total_cost = SumCostOf(n))

\* a provider whose failed record carried a cost after a successful one
C15_Witness ==
    \E n \in DOMAIN provider_stats :
        /\ provider_stats[n].failed_requests > 0
        /\ provider_stats[n].total_cost > 0
        /\ usage_history[Len(usage_history)].provider = n
        /\ ~usage_history[Len(usage_history)].success
        /\ usage_history[Len(usage_history)].cost > 0

Min(a, b) == IF a < b THEN a ELSE b

\* C16: after n record_usage calls usage_history holds exactly the last
\* min(n, 100) records in insertion order, and get_stats() returns the last
\* min(n, 10) of them, in insertion order, as recent_requests.
C16_HistoryWindow ==
    /\ Len(usage_history) = Min(nrec, HistoryCap)
    /\ \A i \in 1..Len(usage_history) :
          usage_history[i] = RecordNo(nrec - Len(usage_history) + i)
    /\ last_op = "get_stats" =>
          /\ Len(stats_result.recent_requests) = Min(nrec, RecentCount)
          /\ \A i \in 1..Len(stats_result.recent_requests) :
                stats_result.recent_requests[i]
                    = RecordNo(nrec - Len(stats_result.recent_requests) + i)

\* more than 100 records made, the oldest evicted, and get_stats just called
C16_Witness ==
    /\ nrec > HistoryCap
    /\ Len(usage_history) = HistoryCap
    /\ usage_history[1].prompt_tokens = nrec - HistoryCap + 1
    /\ last_op = "get_stats"
    /\ Len(stats_result.recent_requests) = RecentCount

Counters(ps) ==
    [n \in DOMAIN ps |->
        <<ps[n].total_requests, ps[n].successful_requests,
          ps[n].failed_requests, ps[n].total_prompt_tokens,
          ps[n].total_completion_tokens, ps[n].total_cost,
          ps[n].total_latency>>]

\* C17: get_stats() leaves every per-provider counter and accumulator and the
\* history buffer unchanged, and two consecutive get_stats() calls with no
\* record_usage in between return equal overall total_cost, total_tokens and
\* total_requests.
C17_GetStatsReadOnly ==
    [][LGetStats =>
          /\ Counters(provider_stats') = Counters(provider_stats)
          /\ usage_history' = usage_history
          /\ (last_op = "get_stats"
                => stats_result'.overall = stats_result.overall)]_vars

\* get_stats called on a ledger with successes and failures
C17_Witness ==
    /\ last_op = "get_stats"
    /\ stats_result.overall.total_requests > 1
    /\ stats_result.overall.total_cost > 0
    /\ \E n \in DOMAIN provider_stats :
          /\ provider_stats[n].failed_requests > 0
          /\ "avg_latency" \in DOMAIN provider_stats[n]

----------------------------------------------------------------------------
(* The provider adapters of RequestHandler: one call at a time, each upstream
   request answered by a valid response, a timeout or any other error.
   a_log is the sequence of events of the current call. *)

MaxRetriesArg == 2

\* provider.max_retries is not configured
Unset == -1

AdapterTypes == {"mistral", "deepseek", "google_gemini"}
ApiKeys == {"missing", "blank", "set"}
Outcomes == {"ok", "timeout", "error"}

AdapterProviders ==
    [type : AdapterTypes, api_key : ApiKeys,
     max_retries : {Unset} \cup (0..MaxRetriesArg)]

DefaultRetries(type) == IF type = "mistral" THEN 1 ELSE 2

\* provider.get("max_retries", default)
MaxRetriesOf(p) ==
    IF p.max_retries = Unset THEN DefaultRetries(p.type) ELSE p.max_retries

\* the adapter gets past reading api_key: provider["api_key"] raises KeyError
\* in Mistral and DeepSeek when the key is absent, Gemini raises when it is
\* absent or blank
KeyUsable(p) ==
    IF p.type = "google_gemini" THEN p.api_key = "set"
    ELSE p.api_key # "missing"

KeyError(p) == IF p.type = "google_gemini" THEN "missing_key" ELSE "KeyError"

\* slip: one retry too many
retry_left_more(attempt, max_retries) == attempt <= max_retries

\* `attempt < max_retries` (Gemini: not `attempt == max_retries`)
retry_left(attempt, max_retries) == attempt < max_retries

\* asyncio.sleep(1) before the next request
SleepsAfter(type, outcome) ==
    IF type = "google_gemini" THEN TRUE ELSE outcome = "error"

adapterothers == <<now, providers_config, cb, ledgervars, taskvars, admits,
                   fails, streak, ledgerobs>>

\* call_provider(provider, ...) up to the first session.post
ACall(p) ==
    /\ a_pc \in {"idle", "returned", "raised"}
    /\ a_provider' = p
    /\ a_attempt' = 0
    /\ IF KeyUsable(p)
       THEN /\ a_pc' = "awaiting"
            /\ a_log' = <<"request">>
            /\ a_error' = "none"
       ELSE /\ a_pc' = "raised"
            /\ a_log' = << >>
            /\ a_error' = KeyError(p)
    /\ UNCHANGED adapterothers

\* the pending request completes
AResponse(outcome) ==
    /\ a_pc = "awaiting"
    /\ IF outcome = "ok"
       THEN /\ a_pc' = "returned"
            /\ a_log' = Append(a_log, outcome)
            /\ UNCHANGED <<a_attempt, a_error>>
       ELSE IF retry_left(a_attempt, MaxRetriesOf(a_provider))
       THEN IF SleepsAfter(a_provider.type, outcome)
            THEN /\ a_pc' = "sleeping"
                 /\ a_log' = a_log \o <<outcome, "sleep">>
                 /\ UNCHANGED <<a_attempt, a_error>>
            ELSE /\ a_pc' = "awaiting"
                 /\ a_attempt' = a_attempt + 1
                 /\ a_log' = a_log \o <<outcome, "request">>
                 /\ UNCHANGED a_error
       ELSE /\ a_pc' = "raised"
            /\ a_error' = outcome
            /\ a_log' = Append(a_log, outcome)
            /\ UNCHANGED a_attempt
    /\ UNCHANGED <<a_provider, adapterothers>>

\* asyncio.sleep(1) returns and the loop issues the next request
ASleepDone ==
    /\ a_pc = "sleeping"
    /\ a_pc' = "awaiting"
    /\ a_attempt' = a_attempt + 1
    /\ a_log' = Append(a_log, "request")
    /\ UNCHANGED <<a_provider, a_error, adapterothers>>

NextAdapter ==
    \/ \E p \in AdapterProviders : ACall(p)
    \/ \E outcome \in Outcomes : AResponse(outcome)
    \/ ASleepDone

SpecAdapter == Init /\ [][NextAdapter]_vars

----------------------------------------------------------------------------
(* Properties of the adapters *)

RECURSIVE CountIn(_, _)
CountIn(sq, S) ==
    IF sq = << >> THEN 0
    ELSE (IF Head(sq) \in S THEN 1 ELSE 0) + CountIn(Tail(sq), S)

Requests == CountIn(a_log, {"request"})
FailedRequests == CountIn(a_log, {"timeout", "error"})

\* C18 as stated: one adapter call issues at most max_retries + 1 requests,
\* returns at the first request that yields a valid response, and otherwise
\* raises the last error after exactly max_retries + 1 failed requests.
C18_BoundedRetries ==
    /\ Requests <= MaxRetriesOf(a_provider) + 1
    /\ a_pc = "returned" =>
          /\ a_log[Len(a_log)] = "ok"
          /\ FailedRequests = Requests - 1
    /\ a_pc = "raised" =>
          /\ FailedRequests = MaxRetriesOf(a_provider) + 1
          /\ Requests = FailedRequests
          /\ a_error = a_log[Len(a_log)]

\* C18, amended: a call whose provider has no usable api_key raises before
\* any request is issued; any other call issues at most max_retries + 1
\* requests, returns at the first valid response, and otherwise raises the
\* last error after exactly max_retries + 1 failed requests.
C18_BoundedRetriesWithKey ==
    /\ Requests <= MaxRetriesOf(a_provider) + 1
    /\ a_pc = "returned" =>
          /\ a_log[Len(a_log)] = "ok"
          /\ FailedRequests = Requests - 1
    /\ (a_pc = "raised" /\ KeyUsable(a_provider)) =>
          /\ FailedRequests = MaxRetriesOf(a_provider) + 1
          /\ Requests = FailedRequests
          /\ a_error = a_log[Len(a_log)]
    /\ (a_pc # "idle" /\ ~KeyUsable(a_provider)) =>
          /\ a_pc = "raised"
          /\ Requests = 0
          /\ a_error = KeyError(a_provider)

\* a call with a key that failed twice and then raised a timeout
C18_Witness ==
    /\ a_pc = "raised"
    /\ KeyUsable(a_provider)
    /\ MaxRetriesOf(a_provider) = 1
    /\ Requests = 2
    /\ a_error = "timeout"
    /\ a_log[2] = "error"

\* C19 as stated: in every adapter, between any two consecutive requests of
\* one call there is a 1-second wait, whether the earlier request failed by
\* timeout or by any other error.
C19_WaitBetweenRequests ==
    \A i \in 2..Len(a_log) :
        a_log[i] = "request" => a_log[i - 1] = "sleep"

----------------------------------------------------------------------------
(* record_success on a closed breaker *)

\* C20 as stated: record_success() on a closed breaker is a no-op: state,
\* failure_timestamps, last_failure_time and half_open_attempts are unchanged,
\* so the failures recorded before the success still count toward the
\* threshold.
C20_ClosedSuccessNoOp ==
    cb[CBName].state = "closed" =>
        record_success(cb[CBName]) = cb[CBName]

\* C20, amended: record_success() on a closed breaker leaves state,
\* last_failure_time and half_open_attempts unchanged and empties
\* failure_timestamps, so only failures recorded after the last success count
\* toward the threshold.
C20_ClosedSuccessClears ==
    /\ cb[CBName].state = "closed" =>
          record_success(cb[CBName])
              = [cb[CBName] EXCEPT !.failure_timestamps = << >>]
    /\ streak[CBName] < threshold =>
          Len(cb[CBName].failure_timestamps) <= streak[CBName]

\* three failures inside one cooldown window with a success before the last
\* one: the breaker never opened and holds one timestamp
C20_Witness ==
    /\ cb[CBName].state = "closed"
    /\ cb[CBName].last_failure_time = 0
    /\ ThresholdFailuresInWindow(CBName)
    /\ streak[CBName] = 1
    /\ Len(cb[CBName].failure_timestamps) = 1

----------------------------------------------------------------------------
(* The latency factor and the ledger's current average *)

\* total_latency / successful_requests > 5 seconds
SlowNow(st) == st.total_latency > LatencyLimit * st.successful_requests

\* C21 as stated: for a provider with at least one successful attempt the
\* score applies latency factor 1.2 exactly when its current
\* total_latency / successful_requests exceeds 5 seconds and 1.0 otherwise,
\* whether or not and whenever get_stats() has been called.
C21_LatencyFactorCurrent ==
    \A p \in Configured :
        StatGet(provider_stats, p.name, "successful_requests", 0) > 0
            => /\ ~ScoreOf(p).raises
               /\ ScoreOf(p).latency10
                    = IF SlowNow(provider_stats[p.name]) THEN 12 ELSE 10

----------------------------------------------------------------------------
(* Progress of the breakers.  The clock advances and the event loop resumes
   every attempt whose adapter call has returned; when generate is called is
   up to the callers. *)

AttemptReturns(t) ==
    \/ \E resp \in Responses : AttemptSucceeds(t, resp)
    \/ AttemptFails(t)

SpecLive ==
    /\ Spec
    /\ WF_vars(Tick)
    /\ \A t \in Tasks : WF_vars(AttemptReturns(t))

\* can_attempt() would return true now
Admits(n) == n \in DOMAIN cb /\ can_attempt(cb[n], now).ok

\* can_attempt() would return false now; for an open breaker the end of its
\* cooldown lies within the modelled time
Rejects(n) ==
    /\ n \in DOMAIN cb
    /\ ~can_attempt(cb[n], now).ok
    /\ cb[n].state = "open" => cb[n].last_failure_time + cooldown <= MaxTime

\* C22 as stated: no breaker becomes permanently rejecting: from every
\* reachable state, as time advances and generate keeps being called, each
\* provider's can_attempt() eventually returns true again.
C22_EventuallyAdmits ==
    \A n \in Names : Rejects(n) ~> Admits(n)

----------------------------------------------------------------------------
(* Admission and invocation *)

(* Concurrent generate calls whose attempts all fail within one clock
   second: the shortest runs in which a breaker opens while another call
   still holds the provider in its ranked list. *)

RaceRecords == 8

NextRace ==
    \/ \E t \in Tasks : GenStartWithin(t, RaceRecords)
    \/ \E t \in Tasks : AttemptFails(t)

SpecRace == Init /\ [][NextRace]_vars

\* task t has just invoked the adapter of the last provider in calls[t]
Invoked(t) == calls'[t] # calls[t] /\ calls'[t] # << >>

\* C23: across concurrent generate calls, an adapter is never invoked for a
\* provider whose circuit breaker is in state open at the moment of
\* invocation.
C23_NeverInvokedOpen ==
    [][\A t \in Tasks :
          Invoked(t) => cb'[calls'[t][Len(calls'[t])]].state # "open"]_vars

====
